---- MODULE Spec2Model ----
(***************************************************************************)
(* The weapon-arrests dashboard (src/analysis/fianl_data.py): one script   *)
(* that loads three CSV tables, filters the monthly table by a year range  *)
(* chosen on a slider, and renders metrics, charts and tables.  Streamlit  *)
(* runs the script top to bottom and runs it again on every interaction.   *)
(*                                                                         *)
(* The derived columns of the monthly table (3_Month_Avg, 12_Month_Avg,    *)
(* YoY_Change) and the summary / monthly-averages tables are computed by   *)
(* an aggregation step whose code is not among the repository's files; it  *)
(* is modelled here from the specification (sections 3 and 4.1) and used   *)
(* to produce the files the script reads.                                  *)
(*                                                                         *)
(* Floating-point values are kept as exact rationals with the two special  *)
(* values NaN and +/-inf; rounding is not modelled (the arrest counts      *)
(* enumerated are small integers).                                         *)
(***************************************************************************)
EXTENDS Integers, Sequences, FiniteSets, TLC

\* ---------------------------------------------------------------- bounds
MaxLen == 14
MaxArrests == 2
BaseArrests == 1

\* ------------------------------------------------------ program constants
FirstYear == 2018
ShiftPeriods == 12
ShortWindow == 3
LongWindow == 12

Months == 1..12
FirstMonths == {1, 12}
ArrestVals == 0..MaxArrests
FileNames == <<"weapon_arrests_monthly.csv", "weapon_arrests_summary.csv",
               "weapon_arrests_monthly_averages.csv">>
FileStates == {"ok", "missing", "unreadable"}
Perturbations == {"none", "swap", "duplicate", "extra_month"}

\* ---------------------------------------------------------------- floats
NaN == [k |-> "nan", n |-> 0, d |-> 1]
Inf == [k |-> "inf", n |-> 1, d |-> 1]
NegInf == [k |-> "inf", n |-> -1, d |-> 1]

Abs(x) == IF x < 0 THEN -x ELSE x

RECURSIVE GCD(_, _)
GCD(a, b) == IF b = 0 THEN a ELSE GCD(b, a % b)

\* The rational n/d (d # 0) in lowest terms with a positive denominator.
Num(n, d) ==
    LET g == GCD(Abs(n), Abs(d))
        s == IF d < 0 THEN -1 ELSE 1
    IN  [k |-> "num", n |-> s * (n \div g), d |-> s * (d \div g)]

IsNum(x) == x.k = "num"
IsNaN(x) == x.k = "nan"

\* x + y in IEEE arithmetic (inf - inf is NaN).
FAdd(x, y) ==
    IF IsNaN(x) \/ IsNaN(y) THEN NaN
    ELSE IF x.k = "inf" /\ y.k = "inf" THEN (IF x.n = y.n THEN x ELSE NaN)
    ELSE IF x.k = "inf" THEN x
    ELSE IF y.k = "inf" THEN y
    ELSE Num(x.n * y.d + y.n * x.d, x.d * y.d)

\* x / y for two finite values, as numpy divides: x/0 is +/-inf, 0/0 is NaN.
FDiv(x, y) ==
    IF IsNaN(x) \/ IsNaN(y) THEN NaN
    ELSE IF y.n = 0 THEN (IF x.n = 0 THEN NaN ELSE IF x.n > 0 THEN Inf ELSE NegInf)
    ELSE Num(x.n * y.d, x.d * y.n)

\* (q - 1) * 100
PercentChange(q) ==
    IF IsNum(q) THEN Num((q.n - q.d) * 100, q.d) ELSE q

\* x > 0 as Python compares floats: False for NaN.
GreaterThanZero(x) == x.k # "nan" /\ x.n > 0

\* pandas Series.sum(): NaN entries are skipped, an empty sum is 0.
RECURSIVE FSum(_)
FSum(s) ==
    IF Len(s) = 0 THEN Num(0, 1)
    ELSE IF IsNaN(Head(s)) THEN FSum(Tail(s))
    ELSE FAdd(Head(s), FSum(Tail(s)))

\* pandas Series.mean(): NaN entries are skipped, the mean of nothing is NaN.
FMean(s) ==
    LET vals == SelectSeq(s, LAMBDA v : ~IsNaN(v))
    IN  IF Len(vals) = 0 THEN NaN ELSE FDiv(FSum(vals), Num(Len(vals), 1))

RECURSIVE SumSeq(_)
SumSeq(s) == IF Len(s) = 0 THEN 0 ELSE Head(s) + SumSeq(Tail(s))

Column(rows, f) == [i \in 1..Len(rows) |-> rows[i][f]]
ToFloats(s) == [i \in 1..Len(s) |-> Num(s[i], 1)]

RECURSIVE SortedSeq(_)
SortedSeq(S) ==
    IF S = {} THEN <<>>
    ELSE LET m == CHOOSE x \in S : \A y \in S : x <= y
         IN  <<m>> \o SortedSeq(S \ {m})

\* ------------------------------------------- the aggregation step (spec)
\* Trailing mean of the k values ending at position i; absent before k values exist.
RECURSIVE WindowSum(_, _, _)
WindowSum(arr, from, to) ==
    IF from > to THEN 0 ELSE arr[to] + WindowSum(arr, from, to - 1)

\* A rolling mean that averages whatever part of the window exists.
RollingMeanPartial(arr, k, i) ==
    IF i < k THEN Num(WindowSum(arr, 1, i), i) ELSE Num(WindowSum(arr, i - k + 1, i), k)

RollingMean(arr, k, i) ==
    IF i < k THEN NaN ELSE Num(WindowSum(arr, i - k + 1, i), k)

\* A percent change that divides by a zero earlier value as floats do.
YoYChangeInf(arr, i) ==
    IF i <= ShiftPeriods THEN NaN
    ELSE PercentChange(FDiv(Num(arr[i], 1), Num(arr[i - ShiftPeriods], 1)))

\* Percent change against the value ShiftPeriods positions earlier; absent when
\* there is none or when it is zero.
YoYChange(arr, i) ==
    IF i <= ShiftPeriods THEN NaN
    ELSE IF arr[i - ShiftPeriods] = 0 THEN NaN
    ELSE PercentChange(Num(arr[i], arr[i - ShiftPeriods]))

\* The contiguous series of Len(arr) periods starting at (FirstYear, fm).
Observations(fm, arr) ==
    [i \in 1..Len(arr) |->
        LET p == (fm - 1) + (i - 1)
        IN  [Year |-> FirstYear + (p \div 12), Month |-> (p % 12) + 1, Arrests |-> arr[i]]]

MonthlyTable(obs) ==
    LET arr == Column(obs, "Arrests")
    IN  [i \in 1..Len(obs) |->
            [Year |-> obs[i].Year, Month |-> obs[i].Month,
             Year_Month |-> obs[i].Year * 100 + obs[i].Month,
             Arrests |-> obs[i].Arrests,
             Month_Avg_3 |-> RollingMean(arr, ShortWindow, i),
             Month_Avg_12 |-> RollingMean(arr, LongWindow, i),
             YoY_Change |-> YoYChange(arr, i)]]

SetMax(S) == CHOOSE x \in S : \A y \in S : y <= x
SetMin(S) == CHOOSE x \in S : \A y \in S : x <= y

SummaryTable(obs) ==
    LET years == SortedSeq({obs[i].Year : i \in 1..Len(obs)})
    IN  [j \in 1..Len(years) |->
            LET vals == Column(SelectSeq(obs, LAMBDA r : r.Year = years[j]), "Arrests")
                set == {vals[i] : i \in 1..Len(vals)}
            IN  [Year |-> years[j], Total_Arrests |-> SumSeq(vals),
                 Average_Monthly_Arrests |-> Num(SumSeq(vals), Len(vals)),
                 Max_Monthly_Arrests |-> SetMax(set), Min_Monthly_Arrests |-> SetMin(set)]]

MonthlyAveragesTable(obs) ==
    [m \in Months |->
        LET vals == Column(SelectSeq(obs, LAMBDA r : r.Month = m), "Arrests")
            set == {vals[i] : i \in 1..Len(vals)}
        IN  IF Len(vals) = 0
            THEN [Month |-> m, Average_Arrests |-> NaN, Min_Arrests |-> NaN, Max_Arrests |-> NaN]
            ELSE [Month |-> m, Average_Arrests |-> Num(SumSeq(vals), Len(vals)),
                  Min_Arrests |-> Num(SetMin(set), 1), Max_Arrests |-> Num(SetMax(set), 1)]]

\* ------------------------------------------------------ the files on disk
\* A series of n periods, every count BaseArrests except the one at position p.
Series(n, p, a) == [i \in 1..n |-> IF i = p THEN a ELSE BaseArrests]

\* The monthly file as the aggregation step wrote it, or that file after an edit
\* at row p: two neighbouring rows exchanged, a row repeated at the end, or a
\* row for a thirteenth month added to the year of row p.
Perturb(t, p, kind) ==
    CASE kind = "none" -> t
      [] kind = "swap" ->
            IF p < Len(t)
            THEN [i \in 1..Len(t) |-> IF i = p THEN t[p + 1] ELSE IF i = p + 1 THEN t[p] ELSE t[i]]
            ELSE t
      [] kind = "duplicate" -> Append(t, t[p])
      [] kind = "extra_month" ->
            Append(t, [t[p] EXCEPT !.Month = 13, !.Year_Month = t[p].Year * 100 + 13])

DiskFiles(n, p, a, fm, kind) ==
    LET obs == Observations(fm, Series(n, p, a))
    IN  [monthly |-> Perturb(MonthlyTable(obs), p, kind),
         summary |-> SummaryTable(obs),
         averages |-> MonthlyAveragesTable(obs)]


\* ------------------------------------------------------------ the script
VARIABLES
    disk,               \* the contents of the three CSV files
    status,             \* each file: ok, missing or unreadable
    pc,                 \* the last block of the script that completed
    monthly_data, summary_data, monthly_averages,
    year_range, filtered_data,
    total_arrests, avg_monthly, yoy_change, trend,
    yearly_comparison, yoy_pivot, yearly_changes,
    views,              \* what the seasonal bar chart and the two statistics tables show
    shown,              \* the metrics, charts and tables rendered so far, in order
    errors              \* the error messages shown so far

tables == <<monthly_data, summary_data, monthly_averages>>
derived == <<year_range, filtered_data, total_arrests, avg_monthly, yoy_change, trend,
             yearly_comparison, yoy_pivot, yearly_changes, views>>
vars == <<disk, status, pc, tables, derived, shown, errors>>

NoRange == <<0, 0>>
NoViews == [seasonal |-> <<>>, summary |-> <<>>, monthly_stats |-> <<>>]

AllOk == \A i \in 1..Len(FileNames) : status[FileNames[i]] = "ok"

\* The first file, in the order load_data reads them, whose read fails.
FirstFailing ==
    FileNames[CHOOSE i \in 1..Len(FileNames) :
                 /\ status[FileNames[i]] # "ok"
                 /\ \A j \in 1..(i - 1) : status[FileNames[j]] = "ok"]

YearsOf(rows) == {rows[i].Year : i \in 1..Len(rows)}

FilterRowsExclusive(rows, lo, hi) ==
    SelectSeq(rows, LAMBDA r : r.Year >= lo /\ r.Year < hi)

FilterRows(rows, lo, hi) ==
    SelectSeq(rows, LAMBDA r : r.Year >= lo /\ r.Year <= hi)

TrendNonNegative(yoy) ==
    IF yoy.k # "nan" /\ yoy.n >= 0 THEN "up" ELSE "down"

\* "up" stands for the rising-chart symbol, "down" for the falling one.
Trend(yoy) ==
    IF GreaterThanZero(yoy) THEN "up" ELSE "down"

\* DataFrame.pivot raises ValueError when an (index, columns) pair occurs twice.
HasDuplicateEntries(rows, index, columns) ==
    \E i, j \in 1..Len(rows) :
        i < j /\ rows[i][index] = rows[j][index] /\ rows[i][columns] = rows[j][columns]

\* DataFrame.pivot: one cell per (index, columns) pair, NaN where no row has it;
\* the integer Arrests become floats.
Pivot(rows, index, columns, values) ==
    LET I == {rows[i][index] : i \in 1..Len(rows)}
        C == {rows[i][columns] : i \in 1..Len(rows)}
        cell(r) == IF values = "Arrests" THEN Num(r[values], 1) ELSE r[values]
    IN  [ic \in I \X C |->
            IF \E i \in 1..Len(rows) : rows[i][index] = ic[1] /\ rows[i][columns] = ic[2]
            THEN cell(rows[CHOOSE i \in 1..Len(rows) :
                              rows[i][index] = ic[1] /\ rows[i][columns] = ic[2]])
            ELSE NaN]

ShiftByOne(s, k) ==
    [i \in 1..Len(s) |-> IF i <= 1 THEN NaN ELSE s[i - 1]]

\* Series.shift(k): every value moves k positions down, the first k become NaN.
Shift(s, k) ==
    [i \in 1..Len(s) |-> IF i <= k THEN NaN ELSE s[i - k]]

RECURSIVE FirstRun(_, _)
FirstRun(rows, y) ==
    IF Len(rows) = 0 THEN <<>>
    ELSE IF Head(rows).Year # y THEN FirstRun(Tail(rows), y)
    ELSE LET rest == Tail(rows)
             n == CHOOSE k \in 0..Len(rest) :
                     /\ \A i \in 1..k : rest[i].Year = y
                     /\ (k < Len(rest) => rest[k + 1].Year # y)
         IN  <<Head(rows).Arrests>> \o [i \in 1..n |-> rest[i].Arrests]

GroupArrestsFirstRun(rows, y) == FirstRun(rows, y)

\* groupby('Year')['Arrests']: the Arrests of the rows of year y, in row order.
GroupArrests(rows, y) ==
    Column(SelectSeq(rows, LAMBDA r : r.Year = y), "Arrests")

YearlyChanges(rows) ==
    LET years == SortedSeq(YearsOf(rows))
    IN  [j \in 1..Len(years) |->
            LET x == GroupArrests(rows, years[j])
            IN  [Year |-> years[j],
                 Total_Arrests |-> SumSeq(x),
                 YoY_Change |-> PercentChange(FDiv(Num(SumSeq(x), 1),
                                                   FSum(Shift(ToFloats(x), ShiftPeriods))))]]

Init ==
    /\ \E n \in 1..MaxLen, fm \in FirstMonths, a \in ArrestVals, kind \in Perturbations :
         \E p \in 1..n : disk = DiskFiles(n, p, a, fm, kind)
    /\ status \in [{FileNames[i] : i \in 1..Len(FileNames)} -> FileStates]
    /\ pc = "start"
    /\ monthly_data = <<>> /\ summary_data = <<>> /\ monthly_averages = <<>>
    /\ year_range = NoRange /\ filtered_data = <<>>
    /\ total_arrests = 0 /\ avg_monthly = NaN /\ yoy_change = NaN /\ trend = "none"
    /\ yearly_comparison = <<>> /\ yoy_pivot = <<>> /\ yearly_changes = <<>>
    /\ views = NoViews
    /\ shown = <<>>
    /\ errors = <<>>

\* A failed read that neither shows a message nor stops the run.
LoadDataNoStop ==
    /\ pc = "start"
    /\ monthly_data' = IF status[FileNames[1]] = "ok" THEN disk.monthly ELSE <<>>
    /\ summary_data' = IF status[FileNames[2]] = "ok" THEN disk.summary ELSE <<>>
    /\ monthly_averages' = IF status[FileNames[3]] = "ok" THEN disk.averages ELSE <<>>
    /\ pc' = "loaded"
    /\ UNCHANGED <<disk, status, derived, shown, errors>>

\* load_data and its call: all three tables, or a message and st.stop().
LoadData ==
    /\ pc = "start"
    /\ IF AllOk
       THEN /\ monthly_data' = disk.monthly
            /\ summary_data' = disk.summary
            /\ monthly_averages' = disk.averages
            /\ pc' = "loaded"
            /\ UNCHANGED errors
       ELSE /\ errors' = Append(errors, IF status[FirstFailing] = "missing"
                                        THEN "file_not_found" ELSE "unexpected_error")
            /\ pc' = "stopped"
            /\ UNCHANGED tables
    /\ UNCHANGED <<disk, status, derived, shown>>

\* A filter that overwrites the loaded table with the selected rows.
SidebarInPlace ==
    /\ pc = "loaded"
    /\ \E lo, hi \in YearsOf(monthly_data) :
         /\ lo <= hi
         /\ year_range' = <<lo, hi>>
         /\ filtered_data' = FilterRows(monthly_data, lo, hi)
         /\ monthly_data' = FilterRows(monthly_data, lo, hi)
    /\ pc' = "filtered"
    /\ UNCHANGED <<disk, status, summary_data, monthly_averages, total_arrests, avg_monthly,
                   yoy_change, trend, yearly_comparison, yoy_pivot, yearly_changes, views,
                   shown, errors>>

\* The year slider (any pair lo <= hi of the years present) and the filter.
Sidebar ==
    /\ pc = "loaded"
    /\ \E lo, hi \in YearsOf(monthly_data) :
         /\ lo <= hi
         /\ year_range' = <<lo, hi>>
         /\ filtered_data' = FilterRows(monthly_data, lo, hi)
    /\ pc' = "filtered"
    /\ UNCHANGED <<disk, status, tables, total_arrests, avg_monthly, yoy_change, trend,
                   yearly_comparison, yoy_pivot, yearly_changes, views, shown, errors>>

Metrics ==
    /\ pc = "filtered"
    /\ total_arrests' = SumSeq(Column(filtered_data, "Arrests"))
    /\ avg_monthly' = FMean(ToFloats(Column(filtered_data, "Arrests")))
    /\ yoy_change' = FMean(Column(filtered_data, "YoY_Change"))
    /\ trend' = Trend(yoy_change')
    /\ shown' = shown \o <<"Total Arrests", "Average Monthly Arrests",
                           "Average YoY Change", "Overall Trend">>
    /\ pc' = "metrics"
    /\ UNCHANGED <<disk, status, tables, year_range, filtered_data, yearly_comparison,
                   yoy_pivot, yearly_changes, views, errors>>

Tab1 ==
    /\ pc = "metrics"
    /\ shown' = Append(shown, "Monthly Arrests with Moving Averages")
    /\ pc' = "tab1"
    /\ UNCHANGED <<disk, status, tables, derived, errors>>

\* The two pivots; the first one raises on a repeated (Month, Year) and the
\* exception ends the run.
Tab2 ==
    /\ pc = "tab1"
    /\ IF HasDuplicateEntries(filtered_data, "Month", "Year")
       THEN /\ errors' = Append(errors, "ValueError")
            /\ pc' = "failed"
            /\ UNCHANGED <<yearly_comparison, yoy_pivot, shown>>
       ELSE /\ yearly_comparison' =
                  Pivot(filtered_data, "Month", "Year", "Arrests")
            /\ yoy_pivot' = Pivot(filtered_data, "Year", "Month", "YoY_Change")
            /\ shown' = shown \o <<"Year-over-Year Comparison by Month",
                                   "Year-over-Year Change Heatmap (%)">>
            /\ pc' = "tab2"
            /\ UNCHANGED errors
    /\ UNCHANGED <<disk, status, tables, year_range, filtered_data, total_arrests,
                   avg_monthly, yoy_change, trend, yearly_changes, views>>

Tab3 ==
    /\ pc = "tab2"
    /\ views' = [views EXCEPT !.seasonal = monthly_averages]
    /\ shown' = shown \o <<"Average Monthly Arrests (bar)", "Monthly Distribution">>
    /\ pc' = "tab3"
    /\ UNCHANGED <<disk, status, tables, year_range, filtered_data, total_arrests,
                   avg_monthly, yoy_change, trend, yearly_comparison, yoy_pivot,
                   yearly_changes, errors>>

Tab4 ==
    /\ pc = "tab3"
    /\ views' = [views EXCEPT !.summary = summary_data, !.monthly_stats = monthly_averages]
    /\ yearly_changes' = YearlyChanges(filtered_data)
    /\ shown' = shown \o <<"Yearly Summary", "Monthly Statistics", "Year-over-Year Changes">>
    /\ pc' = "done"
    /\ UNCHANGED <<disk, status, tables, year_range, filtered_data, total_arrests,
                   avg_monthly, yoy_change, trend, yearly_comparison, yoy_pivot, errors>>

\* Streamlit runs the script again from the top: every variable of the script
\* starts unset, the files are as they were.
Rerun ==
    /\ pc \in {"done", "failed", "stopped"}
    /\ pc' = "start"
    /\ monthly_data' = <<>> /\ summary_data' = <<>> /\ monthly_averages' = <<>>
    /\ year_range' = NoRange /\ filtered_data' = <<>>
    /\ total_arrests' = 0 /\ avg_monthly' = NaN /\ yoy_change' = NaN /\ trend' = "none"
    /\ yearly_comparison' = <<>> /\ yoy_pivot' = <<>> /\ yearly_changes' = <<>>
    /\ views' = NoViews
    /\ shown' = <<>>
    /\ errors' = <<>>
    /\ UNCHANGED <<disk, status>>

Next ==
    \/ LoadData
    \/ Sidebar
    \/ Metrics
    \/ Tab1
    \/ Tab2
    \/ Tab3
    \/ Tab4
    \/ Rerun

Spec == Init /\ [][Next]_vars


\* ---------------------------------------------------------------- claims
AfterLoad == pc \notin {"start", "stopped"}
AfterFilter == pc \in {"filtered", "metrics", "tab1", "tab2", "tab3", "done", "failed"}
AfterMetrics == pc \in {"metrics", "tab1", "tab2", "tab3", "done", "failed"}

DefaultRange == <<SetMin(YearsOf(monthly_data)), SetMax(YearsOf(monthly_data))>>

\* The positions of the monthly rows whose Year lies in the selected range.
Kept ==
    {i \in 1..Len(monthly_data) :
        year_range[1] <= monthly_data[i].Year /\ monthly_data[i].Year <= year_range[2]}

\* The k-th smallest member of a set of positions.
Kth(S, k) == CHOOSE x \in S : Cardinality({y \in S : y < x}) = k - 1

RECURSIVE ArrestsOver(_, _)
ArrestsOver(rows, S) ==
    IF S = {} THEN 0
    ELSE LET i == CHOOSE x \in S : TRUE
         IN  rows[i].Arrests + ArrestsOver(rows, S \ {i})

\* C1: the filtered data is exactly the monthly rows with lo <= Year <= hi, each
\* once and in the original row order; under the default selection (smallest
\* year, largest year) it is the whole monthly table.
C1_FilterKeepsRowsInRange ==
    AfterFilter =>
        /\ Len(filtered_data) = Cardinality(Kept)
        /\ \A k \in 1..Len(filtered_data) : filtered_data[k] = monthly_data[Kth(Kept, k)]
        /\ (year_range = DefaultRange => filtered_data = monthly_data)

C1_Witness ==
    /\ AfterFilter
    /\ year_range[1] < year_range[2]
    /\ year_range # DefaultRange
    /\ Len(filtered_data) > 1
    /\ Len(filtered_data) < Len(monthly_data)

\* C2: the per-year Total_Arrests values of the Year-over-Year Changes table add
\* up to the Total Arrests metric, which is the sum of Arrests over the monthly
\* rows of the selected range.
C2_YearTotalsAddUpToMetric ==
    pc = "done" =>
        /\ SumSeq(Column(yearly_changes, "Total_Arrests")) = total_arrests
        /\ total_arrests = ArrestsOver(monthly_data, Kept)

C2_Witness ==
    /\ pc = "done"
    /\ Len(yearly_changes) >= 2
    /\ \A j \in 1..Len(yearly_changes) : yearly_changes[j].Total_Arrests > 0
    /\ total_arrests > yearly_changes[1].Total_Arrests

\* A valid series in ascending (Year, Month) order: months 1..12, no period twice.
ValidSeries(rows) ==
    /\ \A i \in 1..Len(rows) : rows[i].Month \in Months
    /\ \A i, j \in 1..Len(rows) :
          i < j => \/ rows[i].Year < rows[j].Year
                   \/ (rows[i].Year = rows[j].Year /\ rows[i].Month < rows[j].Month)

\* C3: in a valid sorted series YoY_Change at a position is defined exactly when
\* there is a row 12 positions earlier and its Arrests is not zero; it then is
\* (Arrests / earlier Arrests - 1) * 100, and it is never infinite.
C3_YoYChangeByPosition ==
    (AfterLoad /\ ValidSeries(monthly_data)) =>
        \A i \in 1..Len(monthly_data) :
            LET y == monthly_data[i].YoY_Change
                cur == monthly_data[i].Arrests
                prev == IF i > ShiftPeriods THEN monthly_data[i - ShiftPeriods].Arrests ELSE 0
            IN  /\ y.k \in {"num", "nan"}
                /\ (y.k = "num") <=> (i > ShiftPeriods /\ prev # 0)
                /\ (y.k = "num") => y.n * prev = (cur - prev) * 100 * y.d

C3_Witness ==
    /\ pc = "loaded"
    /\ ValidSeries(monthly_data)
    /\ \E i \in 1..Len(monthly_data) :
          /\ i > ShiftPeriods
          /\ monthly_data[i - ShiftPeriods].Arrests = 0
          /\ monthly_data[i].YoY_Change = NaN
    /\ \E i \in 1..Len(monthly_data) : monthly_data[i].YoY_Change.k = "num"

\* C4: in a valid sorted series the k-month average (k = 3, 12) at a position is
\* defined exactly from the k-th row on, and then is the mean of the k values
\* ending at that position; nothing is averaged over a shorter window.
C4_RollingAverageByPosition ==
    (AfterLoad /\ ValidSeries(monthly_data)) =>
        \A i \in 1..Len(monthly_data) : \A k \in {ShortWindow, LongWindow} :
            LET avg == IF k = ShortWindow THEN monthly_data[i].Month_Avg_3
                       ELSE monthly_data[i].Month_Avg_12
            IN  /\ (avg.k = "num") <=> (i >= k)
                /\ (avg.k = "nan") <=> (i < k)
                /\ i >= k => avg.n * k = avg.d * ArrestsOver(monthly_data, (i - k + 1)..i)

C4_Witness ==
    /\ pc = "loaded"
    /\ ValidSeries(monthly_data)
    /\ Len(monthly_data) > LongWindow
    /\ monthly_data[LongWindow - 1].Month_Avg_12 = NaN
    /\ monthly_data[LongWindow].Month_Avg_12.k = "num"
    /\ monthly_data[ShortWindow - 1].Month_Avg_3 = NaN
    /\ monthly_data[ShortWindow].Month_Avg_3 # monthly_data[ShortWindow + 1].Month_Avg_3

\* C5: an input in which a (Year, Month) pair occurs twice is rejected with
\* MalformedInputError and nothing is rendered from it.
C5_DuplicatesRejected ==
    (AllOk /\ HasDuplicateEntries(disk.monthly, "Year", "Month")) =>
        /\ shown = <<>>
        /\ (pc = "failed" => errors = <<"MalformedInputError">>)

\* Ascending (Year, Month) order.
Ascending(rows) ==
    \A i, j \in 1..Len(rows) :
        i < j => \/ rows[i].Year < rows[j].Year
                 \/ (rows[i].Year = rows[j].Year /\ rows[i].Month <= rows[j].Month)

\* C6: whatever the order of the rows in the input, the monthly table that is
\* processed and displayed is in ascending (Year, Month) order, and under the
\* default selection it has the rows of the input, as many and the same.
C6_DisplayedInSortedOrder ==
    AfterFilter =>
        /\ Ascending(filtered_data)
        /\ (year_range = DefaultRange =>
                /\ Len(filtered_data) = Len(disk.monthly)
                /\ \A i \in 1..Len(disk.monthly) :
                      Cardinality({j \in 1..Len(filtered_data) : filtered_data[j] = disk.monthly[i]})
                      = Cardinality({j \in 1..Len(disk.monthly) : disk.monthly[j] = disk.monthly[i]}))

LoadedAll ==
    /\ pc # "stopped"
    /\ monthly_data = disk.monthly
    /\ summary_data = disk.summary
    /\ monthly_averages = disk.averages
    /\ \A i \in 1..Len(errors) : errors[i] \notin {"file_not_found", "unexpected_error"}

StoppedWith(message) ==
    /\ pc = "stopped"
    /\ errors = <<message>>
    /\ shown = <<>>
    /\ year_range = NoRange
    /\ filtered_data = <<>>
    /\ monthly_data = <<>> /\ summary_data = <<>> /\ monthly_averages = <<>>

SomeMissing == \E i \in 1..Len(FileNames) : status[FileNames[i]] = "missing"

\* C7 as stated: load_data returns all three tables or, when a file cannot be
\* found, shows the file-not-found message and stops the run.
C7_AllTablesOrFileNotFound ==
    pc # "start" =>
        IF SomeMissing THEN StoppedWith("file_not_found") ELSE LoadedAll

\* C7, amended: load_data returns all three tables, or shows one error message
\* (the file-not-found message when the first read that fails fails because the
\* file is missing, the unexpected-error message when it fails otherwise) and
\* stops the run; after that no later step runs and no table is bound.
C7_AllTablesOrStop ==
    pc # "start" =>
        IF AllOk THEN LoadedAll
        ELSE StoppedWith(IF status[FirstFailing] = "missing"
                         THEN "file_not_found" ELSE "unexpected_error")

C7_Witness ==
    /\ pc = "stopped"
    /\ status[FileNames[1]] = "ok"
    /\ status[FileNames[2]] = "missing"
    /\ errors = <<"file_not_found">>
    /\ shown = <<>>

\* C8: after the load the three tables keep their loaded contents through every
\* later step and every range selection, and what the seasonal bar chart, the
\* Yearly Summary and the Monthly Statistics show is that of the loaded tables
\* whatever range is selected.
C8_TablesNeverMutated ==
    AfterLoad =>
        /\ monthly_data = disk.monthly
        /\ summary_data = disk.summary
        /\ monthly_averages = disk.averages
        /\ (pc \in {"tab3", "done"} => views.seasonal = disk.averages)
        /\ (pc = "done" => views.summary = disk.summary /\ views.monthly_stats = disk.averages)

C8_Witness ==
    /\ pc = "done"
    /\ year_range # DefaultRange
    /\ Len(filtered_data) < Len(monthly_data)
    /\ monthly_data = disk.monthly
    /\ views.seasonal = disk.averages

\* The positions of the filtered rows of year y, and those of them that are
\* still inside the group after moving down 12 positions within it.
GroupPositions(y) == {i \in 1..Len(filtered_data) : filtered_data[i].Year = y}
ShiftedIn(y) ==
    {i \in GroupPositions(y) :
        Cardinality({j \in GroupPositions(y) : j > i}) >= ShiftPeriods}

\* C9: each year's YoY_Change in the Year-over-Year Changes table is
\* (sum of the year's Arrests / sum of the year's Arrests shifted down 12
\* positions inside the year's group - 1) * 100; for a group of at most 12 rows
\* the divisor is 0 and the value is infinite (total positive) or undefined
\* (total 0); a finite value needs a group of more than 12 rows.
C9_YearlyChangeDividesByShiftedSum ==
    pc = "done" =>
        \A j \in 1..Len(yearly_changes) :
            LET y == yearly_changes[j].Year
                v == yearly_changes[j].YoY_Change
                total == ArrestsOver(filtered_data, GroupPositions(y))
                shifted == ArrestsOver(filtered_data, ShiftedIn(y))
            IN  /\ yearly_changes[j].Total_Arrests = total
                /\ (shifted # 0 => v.k = "num" /\ v.n * shifted = (total - shifted) * 100 * v.d)
                /\ (shifted = 0 /\ total > 0 => v = Inf)
                /\ (shifted = 0 /\ total = 0 => v = NaN)
                /\ (Cardinality(GroupPositions(y)) <= ShiftPeriods => shifted = 0 /\ v.k # "num")
                /\ (v.k = "num" => Cardinality(GroupPositions(y)) > ShiftPeriods)

C9_Witness ==
    /\ pc = "done"
    /\ \E j \in 1..Len(yearly_changes) :
          /\ Cardinality(GroupPositions(yearly_changes[j].Year)) \in 2..ShiftPeriods
          /\ yearly_changes[j].YoY_Change = Inf
    /\ \E j \in 1..Len(yearly_changes) :
          /\ Cardinality(GroupPositions(yearly_changes[j].Year)) > ShiftPeriods
          /\ yearly_changes[j].YoY_Change.k = "num"

\* The filtered rows whose YoY_Change is defined, and the sign of the sum of
\* those values (the sign of their mean).
DefinedYoY == {i \in 1..Len(filtered_data) : filtered_data[i].YoY_Change.k # "nan"}

RECURSIVE DenominatorProduct(_)
DenominatorProduct(S) ==
    IF S = {} THEN 1
    ELSE LET i == CHOOSE x \in S : TRUE
         IN  filtered_data[i].YoY_Change.d * DenominatorProduct(S \ {i})

RECURSIVE ScaledSum(_, _)
ScaledSum(S, D) ==
    IF S = {} THEN 0
    ELSE LET i == CHOOSE x \in S : TRUE
         IN  filtered_data[i].YoY_Change.n * (D \div filtered_data[i].YoY_Change.d)
             + ScaledSum(S \ {i}, D)

\* C10: Overall Trend shows the upward symbol exactly when the mean of the
\* defined YoY_Change values of the filtered rows is strictly positive, and the
\* downward symbol otherwise: mean 0, mean negative, or no defined value at all.
C10_TrendUpIffMeanPositive ==
    AfterMetrics =>
        /\ trend \in {"up", "down"}
        /\ (trend = "up") <=>
              (DefinedYoY # {} /\ ScaledSum(DefinedYoY, DenominatorProduct(DefinedYoY)) > 0)

C10_Witness ==
    /\ AfterMetrics
    /\ Len(filtered_data) >= ShiftPeriods
    /\ DefinedYoY = {}
    /\ yoy_change = NaN
    /\ trend = "down"

====
